---- MODULE Spec2Model ----
(***************************************************************************)
(* Command mailbox and device ingest of src/app.py (the Flask handlers     *)
(* esp32_push_data, esp32_get_command, set_mode, set_pump) over the two    *)
(* stores they use: the Firebase nodes 'commands' and 'sensor_data', and   *)
(* the SQLite file soilsense.db (pump_commands, sensor_current,            *)
(* sensor_history).                                                        *)
(*                                                                         *)
(* Every request is served by its own worker and its own SQLite            *)
(* connection.  One step of a handler is one Firebase call or one SQL      *)
(* statement; steps of different requests interleave.  Python dicts are    *)
(* records whose DOMAIN is the set of keys; None is the record with no     *)
(* key.                                                                    *)
(***************************************************************************)
EXTENDS Integers, Sequences, FiniteSets, TLC

VARIABLES
    FIREBASE_ENABLED, \* module global set by init_firebase (commands_ref and
                      \* sensor_ref are set exactly when it is True)
    remoteUp,         \* environment: Firebase calls succeed (TRUE) or raise
    localUp,          \* environment: SQLite statements succeed (TRUE) or raise
    now,              \* server clock, in seconds
    commands,         \* Firebase node 'commands': a dict, or None
    sensor_data,      \* Firebase node 'sensor_data': a dict, or None
    db,               \* committed content of soilsense.db
    txn,              \* content as seen by the connection holding the write lock
    dbLock,           \* the request whose connection holds the write lock
    req,              \* per worker: the request it serves and its position
    nissued,          \* number of issue calls so far (stamps each command)
    delivered,        \* per command stamp: responses that carried it (0, 1, 2 = more)
    serial,           \* TRUE: requests are served one at a time and logged
    hist              \* log of completed calls (kept when serial)

vars == <<FIREBASE_ENABLED, remoteUp, localUp, now, commands, sensor_data,
          db, txn, dbLock, req, nissued, delivered, serial, hist>>

-----------------------------------------------------------------------------
(* Bounds of the model *)

MaxIssue == 2       \* issue calls (set_mode, set_pump) in one behaviour
MaxTime == 1        \* largest value of the clock
MaxCalls == 3       \* length of the call log of the serial specification

Procs == {"w1", "w2"}           \* workers serving requests concurrently
NoProc == "none"

ModeArgs == {"manual", "AUTO"}  \* <mode> of /api/mode/<mode>
PumpArgs == {"on"}              \* <state> of /api/pump/<state>

\* request bodies of the device (request.get_json())
Reports == {[soil_percent |-> [list |-> <<40, 60, 80, 20>>], soil_status |-> [str |-> "DRY"],
             pump_status |-> [str |-> "ON"], mode |-> [str |-> "MANUAL"],
             temperature |-> [number |-> 25]]}

-----------------------------------------------------------------------------
(* Python values *)

None == [None |-> TRUE]
EmptyDict == <<>>

\* the str s, the number n and the list seq as values of a JSON document or
\* a column
Str(s) == [str |-> s]
Num(n) == [number |-> n]
List(seq) == [list |-> seq]

\* datetime.isoformat() / datetime.fromisoformat(): a str that parses is
\* the text of an instant; on any other str fromisoformat raises ValueError
isoformat(t) == [iso |-> t]
Parses(s) == "iso" \in DOMAIN s
fromisoformat(s) == s.iso

\* the truth value of a dict, a row or None
Truthy(d) == d # None /\ d # EmptyDict

\* the value is a dict: it has the method get. On None, a number, a str or
\* a list `data.get` raises AttributeError
IsDict(v) == DOMAIN v \cap {"None", "str", "number", "list"} = {}

\* the value is a list: sum() and len() accept it
IsList(v) == "list" \in DOMAIN v

\* dict.get(k, default)
Get(d, k, default) == IF k \in DOMAIN d THEN d[k] ELSE default

\* firebase Reference.update({k: v}): sets one child, keeps the others
RefUpdate(d, k, v) ==
    IF d = None THEN [a \in {k} |-> v]
    ELSE [a \in DOMAIN d \cup {k} |-> IF a = k THEN v ELSE d[a]]

\* json.dumps / json.loads of the TEXT columns
json_dumps(v) == [json |-> v]
\* (a faulty json_loads: the text is handed on unparsed)
json_keep(t) == t

json_loads(t) == t.json

RECURSIVE sum(_)
sum(seq) == IF seq = <<>> THEN 0 ELSE Head(seq) + sum(Tail(seq))

\* a / b of two numbers, kept as the fraction
Div(a, b) == [num |-> a, den |-> b]

\* str.upper() on the path parameters the model draws
upper(s) ==
    CASE s = "manual" -> "MANUAL"
      [] s = "auto" -> "AUTO"
      [] s = "on" -> "ON"
      [] s = "off" -> "OFF"
      [] OTHER -> s

-----------------------------------------------------------------------------
(* init_firebase: enabled only when all four settings are present and the  *)
(* private key starts with the PEM header.                                 *)

\* the four environment variables (set and not empty), whether the key
\* starts with the PEM header, and whether credentials.Certificate and
\* initialize_app accept the settings (they raise otherwise)
Settings == [project_id : BOOLEAN, private_key : BOOLEAN,
             client_email : BOOLEAN, database_url : BOOLEAN,
             pem_header : BOOLEAN, accepted : BOOLEAN]

\* (a faulty init_firebase: the header of the key is not looked at)
init_firebase_any_key(cfg) ==
    IF ~(cfg.project_id /\ cfg.private_key /\ cfg.client_email /\ cfg.database_url)
    THEN FALSE
    ELSE cfg.accepted

\* the value init_firebase leaves in FIREBASE_ENABLED; an exception of the
\* Firebase library is caught and printed
init_firebase(cfg) ==
    IF ~(cfg.project_id /\ cfg.private_key /\ cfg.client_email /\ cfg.database_url)
    THEN FALSE
    ELSE IF ~cfg.pem_header THEN FALSE
    ELSE IF ~cfg.accepted THEN FALSE
    ELSE TRUE

\* init_db: tables are created if missing, the singleton row inserted
\* (sensor_history is append-only and never read by these handlers: the
\* model keeps its newest row)
\* The table sensor_current has `id INTEGER PRIMARY KEY CHECK (id = 1)`: it
\* holds no row (None) or the one row with id 1.
NoFile == [pump_commands |-> <<>>, sensor_current |-> None, sensor_history |-> None]

\* the row of INSERT ... (id, esp32_online) VALUES (1, 0)
FirstRow ==
    [soil_percent |-> None, soil_status |-> None, pump_status |-> None,
     mode |-> None, temperature |-> None, humidity |-> None,
     battery_voltage |-> None, current_consumed |-> None,
     battery_percent |-> None, power_data |-> None,
     esp32_online |-> 0, last_update |-> None]

\* (a faulty init_db: INSERT OR REPLACE, the row is written again at every
\* start)
init_db_replace(d) == [d EXCEPT !.sensor_current = FirstRow]

\* CREATE TABLE IF NOT EXISTS ...; INSERT OR IGNORE INTO sensor_current
init_db(d) ==
    [d EXCEPT !.sensor_current = IF Truthy(@) THEN @ ELSE FirstRow]

InitialDb == init_db(NoFile)

Idle == [op |-> "idle", pc |-> "idle", arg |-> "", data |-> None, timestamp |-> None,
         cmd_data |-> None, command |-> None, response_data |-> None,
         carried |-> 0]

NoneStr == "None"   \* a str-valued dict.get() that found no key

-----------------------------------------------------------------------------
(* SQLite: a connection's first write statement takes the write lock and   *)
(* holds it until commit or close; other connections read the committed    *)
(* content; a write statement waits while another connection holds the     *)
(* lock.                                                                   *)

View(p) == IF dbLock = p THEN txn ELSE db

CanWrite(p) == dbLock \in {NoProc, p}

\* conn.execute(<write statement>) by p, leaving content d in p's transaction
Write(p, d) == /\ txn' = d
               /\ dbLock' = p
               /\ db' = db

\* conn.commit()
Commit(p) == /\ db' = View(p)
             /\ txn' = View(p)
             /\ dbLock' = NoProc

\* conn.close() with no commit: the transaction is rolled back
Rollback(p) == IF dbLock = p
               THEN /\ dbLock' = NoProc
                    /\ txn' = db
                    /\ db' = db
               ELSE UNCHANGED <<db, txn, dbLock>>

Unexecuted(rows) == {i \in DOMAIN rows : rows[i].executed = 0}

\* SELECT * FROM pump_commands WHERE executed = 0 ORDER BY created_at ASC LIMIT 1
\* (the rows fetchone() may return; None when the set is empty)
SelectOldest(rows) ==
    {rows[i] : i \in {k \in Unexecuted(rows) :
        \A j \in Unexecuted(rows) : rows[k].created_at <= rows[j].created_at}}

\* SELECT * FROM pump_commands WHERE executed = 0 ORDER BY created_at DESC LIMIT 1
SelectNewest(rows) ==
    {rows[i] : i \in {k \in Unexecuted(rows) :
        \A j \in Unexecuted(rows) : rows[k].created_at >= rows[j].created_at}}

Fetchone(candidates) == IF candidates = {} THEN {None} ELSE candidates

\* (a faulty MarkRow: the UPDATE also reopens every other row)
MarkRowReopen(rows, id) ==
    [i \in DOMAIN rows |->
        [rows[i] EXCEPT !.executed = IF rows[i].id = id THEN 1 ELSE 0]]

\* (a faulty MarkRow: the UPDATE changes no row)
MarkNoRow(rows, id) == rows

\* UPDATE pump_commands SET executed = 1 WHERE id = ?
MarkRow(rows, id) ==
    [i \in DOMAIN rows |->
        IF rows[i].id = id THEN [rows[i] EXCEPT !.executed = 1] ELSE rows[i]]

\* INSERT INTO pump_commands (command_type, value, user_id) VALUES (?, ?, ?)
InsertRow(rows, kind, value, stamp) ==
    Append(rows, [id |-> Len(rows) + 1, command_type |-> kind, value |-> value,
                  created_at |-> now, executed |-> 0, cid |-> stamp])

\* (a faulty NewCommand: a pending command in the slot is not replaced)
KeepPendingCommand(kind, value, stamp) ==
    IF Truthy(commands) /\ ~Get(commands, "executed", TRUE) THEN commands
    ELSE [type |-> kind, value |-> value, executed |-> FALSE, cid |-> stamp]

\* (a faulty NewCommand: the command is stored already executed)
NewExecutedCommand(kind, value, stamp) ==
    [type |-> kind, value |-> value, executed |-> TRUE, cid |-> stamp]

\* commands_ref.set({...}) of set_mode / set_pump
NewCommand(kind, value, stamp) ==
    [type |-> kind, value |-> value, executed |-> FALSE, cid |-> stamp]

\* (a faulty Pending: the executed flag is not looked at)
PendingAnyCommand(cmd_data) == Truthy(cmd_data)

\* (a faulty Pending: a command without an executed field counts as new)
PendingUnlessExecuted(cmd_data) ==
    Truthy(cmd_data) /\ ~Get(cmd_data, "executed", FALSE)

\* `cmd_data and not cmd_data.get('executed', True)`
Pending(cmd_data) == Truthy(cmd_data) /\ ~Get(cmd_data, "executed", TRUE)

\* {"type": cmd_data.get('type'), "value": cmd_data.get('value')}
CommandOf(cmd_data) ==
    [type |-> Get(cmd_data, "type", NoneStr), value |-> Get(cmd_data, "value", NoneStr)]

\* (a faulty CommandOfRow: the two columns are mixed up)
CommandOfRowSwapped(row) == [type |-> row.value, value |-> row.command_type]

\* {"type": cmd['command_type'], "value": cmd['value']}
CommandOfRow(row) == [type |-> row.command_type, value |-> row.value]

-----------------------------------------------------------------------------
(* What esp32_push_data stores of a report *)

\* the dict of sensor_ref.set({...})
SensorDoc(data, timestamp) ==
    [soil_percent |-> Get(data, "soil_percent", List(<<0, 0, 0, 0>>)),
     soil_status |-> Get(data, "soil_status", Str("UNKNOWN")),
     pump_status |-> Get(data, "pump_status", Str("OFF")),
     mode |-> Get(data, "mode", Str("AUTO")),
     temperature |-> Get(data, "temperature", None),
     humidity |-> Get(data, "humidity", None),
     battery_voltage |-> Get(data, "battery_voltage", None),
     battery_percent |-> Get(data, "battery_percent", None),
     current_consumed |-> Get(data, "current_consumed", None),
     power |-> Get(data, "power", EmptyDict),
     timestamp |-> timestamp]

\* (a faulty SensorRow: a missing number is stored as 0)
SensorRowZeroFilled(data, timestamp) ==
    [soil_percent |-> json_dumps(Get(data, "soil_percent", List(<<0, 0, 0, 0>>))),
     soil_status |-> Get(data, "soil_status", Str("UNKNOWN")),
     pump_status |-> Get(data, "pump_status", Str("OFF")),
     mode |-> Get(data, "mode", Str("AUTO")),
     temperature |-> Get(data, "temperature", Num(0)),
     humidity |-> Get(data, "humidity", Num(0)),
     battery_voltage |-> Get(data, "battery_voltage", Num(0)),
     current_consumed |-> Get(data, "current_consumed", Num(0)),
     battery_percent |-> Get(data, "battery_percent", Num(0)),
     power_data |-> json_dumps(Get(data, "power", EmptyDict)),
     esp32_online |-> 1,
     last_update |-> timestamp]

\* the row left by UPDATE sensor_current SET ... WHERE id = 1
SensorRow(data, timestamp) ==
    [soil_percent |-> json_dumps(Get(data, "soil_percent", List(<<0, 0, 0, 0>>))),
     soil_status |-> Get(data, "soil_status", Str("UNKNOWN")),
     pump_status |-> Get(data, "pump_status", Str("OFF")),
     mode |-> Get(data, "mode", Str("AUTO")),
     temperature |-> Get(data, "temperature", None),
     humidity |-> Get(data, "humidity", None),
     battery_voltage |-> Get(data, "battery_voltage", None),
     current_consumed |-> Get(data, "current_consumed", None),
     battery_percent |-> Get(data, "battery_percent", None),
     power_data |-> json_dumps(Get(data, "power", EmptyDict)),
     esp32_online |-> 1,
     last_update |-> timestamp]

\* (a faulty soil_avg: the sum is always divided by the four channels)
soil_avg_of_four(soil_percent) ==
    IF soil_percent # <<>> THEN Div(sum(soil_percent), 4) ELSE Div(0, 1)

\* soil_avg = sum(soil_percent) / len(soil_percent) if soil_percent else 0
soil_avg(soil_percent) ==
    IF soil_percent # <<>> THEN Div(sum(soil_percent), Len(soil_percent)) ELSE Div(0, 1)

Channel(soil_percent, i) == IF Len(soil_percent) > i THEN soil_percent[i + 1] ELSE 0

\* the row of INSERT INTO sensor_history (...)
HistoryRow(data) ==
    LET soil_percent == Get(data, "soil_percent", List(<<0, 0, 0, 0>>)).list IN
    [soil_avg |-> soil_avg(soil_percent),
     soil1 |-> Channel(soil_percent, 0), soil2 |-> Channel(soil_percent, 1),
     soil3 |-> Channel(soil_percent, 2), soil4 |-> Channel(soil_percent, 3),
     temperature |-> Get(data, "temperature", None),
     humidity |-> Get(data, "humidity", None),
     pump_status |-> Get(data, "pump_status", Str("OFF")),
     mode |-> Get(data, "mode", Str("AUTO")),
     battery_voltage |-> Get(data, "battery_voltage", None),
     battery_percent |-> Get(data, "battery_percent", None),
     current_consumed |-> Get(data, "current_consumed", None)]

\* soil_percent = data.get('soil_percent', [0,0,0,0]); `sum(soil_percent)`
\* (a number that is not 0) or `len(soil_percent)` (None, 0) raises TypeError
\* when the report carries a soil_percent that is not a list
HistoryRaises(data) == ~IsList(Get(data, "soil_percent", List(<<0, 0, 0, 0>>)))

-----------------------------------------------------------------------------
(* Requests *)

Busy(p) == req[p].op # "idle"

IssueOps == {"set_mode", "set_pump"}

\* a request may start: when requests are served one at a time, only while
\* no other is in flight and the call log has room
MayBegin(p) ==
    /\ ~Busy(p)
    /\ serial => /\ \A q \in Procs : ~Busy(q)
                 /\ Len(hist) < MaxCalls

At(p, op, pc) == req[p].op = op /\ req[p].pc = pc

\* the handler goes on to its next statement
Goto(p, pc) == /\ req' = [req EXCEPT ![p].pc = pc]
               /\ UNCHANGED <<delivered, hist>>

\* a completed call as the log keeps it: the request, the response and
\* whether Firebase was enabled
Logged(op, arg, status, body) ==
    [op |-> op, arg |-> arg, status |-> status, body |-> body,
     firebase |-> FIREBASE_ENABLED]

Call(p, status, body) == Logged(req[p].op, req[p].arg, status, body)

\* return jsonify(body), status: the response leaves, the worker is free.
\* stamp is the stamp of the command the body carries, 0 for none
Reply(p, call, stamp) ==
    /\ req' = [req EXCEPT ![p] = Idle]
    /\ delivered' = IF stamp \in DOMAIN delivered
                    THEN [delivered EXCEPT ![stamp] = IF @ < 2 THEN @ + 1 ELSE @]
                    ELSE delivered
    /\ hist' = IF serial THEN Append(hist, call) ELSE hist

Respond(p, status, body, stamp) == Reply(p, Call(p, status, body), stamp)

\* (a faulty Raise: the exception is swallowed and the handler answers
\* success)
RaiseSwallowed(p, body) == /\ Respond(p, 200, [success |-> TRUE], 0)
                           /\ Rollback(p)

\* (a faulty Raise: the exception leaves the handler, the framework answers
\* 500 with no JSON body)
RaiseUncaught(p, body) == /\ Respond(p, 500, EmptyDict, 0)
                          /\ Rollback(p)

\* the outer `except Exception` of a handler, then `finally: conn.close()`
Raise(p, body) == /\ Respond(p, 500, body, 0)
                  /\ Rollback(p)

PushError == [success |-> FALSE, error |-> "error"]
PollError == [has_command |-> FALSE, error |-> "error"]
IssueError == [success |-> FALSE, error |-> "error"]

remote == <<commands, sensor_data>>
sqlite == <<db, txn, dbLock>>
env == <<FIREBASE_ENABLED, remoteUp, localUp, now, serial>>

-----------------------------------------------------------------------------
(* esp32_push_data: POST /api/esp32/push                                   *)
(*                                                                         *)
(* The statements a connection runs inside its transaction with no         *)
(* Firebase call between them are one step: no other request can see or    *)
(* change what lies between them, and a failure of any of them ends in the *)
(* same rollback and error response.                                       *)

\* the body of return jsonify(response_data)
PushBody(command) == IF Truthy(command) THEN [success |-> TRUE, command |-> command]
                     ELSE [success |-> TRUE]

\* (a faulty StoreReport: the UPDATE keeps the mode column of a row that
\* has one)
StoreReportKeepingMode(d, data, timestamp) ==
    [d EXCEPT !.sensor_current =
                  [SensorRow(data, timestamp) EXCEPT
                      !.mode = IF Truthy(d.sensor_current.mode)
                               THEN d.sensor_current.mode ELSE @],
              !.sensor_history = HistoryRow(data)]

\* the transaction content after UPDATE sensor_current SET ... WHERE id = 1
\* (which changes the row with id 1 if there is one) and INSERT INTO
\* sensor_history (...)
StoreReport(d, data, timestamp) ==
    [d EXCEPT !.sensor_current = IF Truthy(@) THEN SensorRow(data, timestamp) ELSE @,
              !.sensor_history = HistoryRow(data)]

\* data = request.get_json(); timestamp = datetime.now(timezone.utc).isoformat()
BeginPush(p, data) ==
    /\ MayBegin(p)
    /\ req' = [req EXCEPT ![p] =
                [Idle EXCEPT !.op = "push", !.data = data, !.timestamp = isoformat(now),
                             !.pc = IF FIREBASE_ENABLED THEN "set_sensor" ELSE "local"]]
    /\ UNCHANGED <<remote, sqlite, env, nissued, delivered, hist>>

\* if FIREBASE_ENABLED and sensor_ref: sensor_ref.set({...}); a failure (of
\* the call, or of data.get on a body that is no dict) is printed and
\* swallowed
PushSensorSet(p) ==
    /\ At(p, "push", "set_sensor")
    /\ sensor_data' = IF remoteUp /\ IsDict(req[p].data)
                      THEN SensorDoc(req[p].data, req[p].timestamp)
                      ELSE sensor_data
    /\ Goto(p, "store")
    /\ UNCHANGED <<commands, sqlite, env, nissued>>

\* the UPDATE cannot be built (data.get on a body that is no dict), or it
\* ran and the history row cannot be built: the exception reaches the outer
\* `except Exception`
StoreRaises(data) == ~IsDict(data) \/ HistoryRaises(data)

\* Firebase enabled: conn = get_db(); UPDATE sensor_current; INSERT INTO
\* sensor_history; the transaction stays open over the Firebase calls below
PushStore(p) ==
    /\ At(p, "push", "store")
    /\ \/ /\ localUp
          /\ ~StoreRaises(req[p].data)
          /\ CanWrite(p)
          /\ Write(p, StoreReport(View(p), req[p].data, req[p].timestamp))
          /\ Goto(p, "get_cmd")
       \/ /\ localUp
          /\ StoreRaises(req[p].data)
          /\ IsDict(req[p].data) => CanWrite(p)
          /\ Raise(p, PushError)
       \/ /\ ~localUp
          /\ Raise(p, PushError)
    /\ UNCHANGED <<remote, env, nissued>>

\* cmd_data = commands_ref.get(); a pending command goes into
\* response_data["command"]; a failure is printed and swallowed
PushGetCommand(p) ==
    /\ At(p, "push", "get_cmd")
    /\ IF remoteUp
       THEN req' = [req EXCEPT
                ![p].cmd_data = commands,
                ![p].response_data = IF Pending(commands) THEN CommandOf(commands) ELSE None,
                ![p].carried = IF Pending(commands) THEN Get(commands, "cid", 0) ELSE 0,
                ![p].pc = IF Pending(commands) THEN "mark_cmd" ELSE "commit"]
       ELSE req' = [req EXCEPT ![p].pc = "commit"]
    /\ UNCHANGED <<remote, sqlite, env, nissued, delivered, hist>>

\* commands_ref.update({'executed': True}); a failure is printed and swallowed
PushMarkCommand(p) ==
    /\ At(p, "push", "mark_cmd")
    /\ commands' = IF remoteUp THEN RefUpdate(commands, "executed", TRUE) ELSE commands
    /\ Goto(p, "commit")
    /\ UNCHANGED <<sensor_data, sqlite, env, nissued>>

\* conn.commit(); return jsonify(response_data)
PushCommit(p) ==
    /\ At(p, "push", "commit")
    /\ \/ /\ localUp
          /\ Commit(p)
          /\ Respond(p, 200, PushBody(req[p].response_data), req[p].carried)
       \/ /\ ~localUp
          /\ Raise(p, PushError)
    /\ UNCHANGED <<remote, env, nissued>>

\* Firebase not enabled, the whole transaction: UPDATE sensor_current; INSERT
\* INTO sensor_history; cmd = SELECT ... ORDER BY created_at ASC LIMIT 1; if
\* cmd: UPDATE pump_commands SET executed = 1 WHERE id = cmd['id'];
\* conn.commit(); return jsonify(response_data)
PushLocal(p) ==
    /\ At(p, "push", "local")
    /\ \/ /\ localUp
          /\ ~StoreRaises(req[p].data)
          /\ CanWrite(p)
          /\ \E cmd \in Fetchone(SelectOldest(View(p).pump_commands)) :
                LET stored == StoreReport(View(p), req[p].data, req[p].timestamp) IN
                IF Truthy(cmd)
                THEN /\ db' = [stored EXCEPT !.pump_commands = MarkRow(@, cmd.id)]
                     /\ Respond(p, 200, PushBody(CommandOfRow(cmd)), cmd.cid)
                ELSE /\ db' = stored
                     /\ Respond(p, 200, PushBody(None), 0)
          /\ txn' = db'
          /\ dbLock' = NoProc
       \/ /\ localUp
          /\ StoreRaises(req[p].data)
          /\ IsDict(req[p].data) => CanWrite(p)
          /\ Raise(p, PushError)
       \/ /\ ~localUp
          /\ Raise(p, PushError)
    /\ UNCHANGED <<remote, env, nissued>>

-----------------------------------------------------------------------------
(* esp32_get_command: GET /esp32/get_command *)

\* {"has_command": True, "type": ..., "value": ...}
PollBody(type, value) == [has_command |-> TRUE, type |-> type, value |-> value]

\* if FIREBASE_ENABLED and commands_ref: cmd_data = commands_ref.get().
\* Without Firebase, with a command that is not pending and on a failure the
\* handler goes on to SQLite
PollGetCommand(p) ==
    /\ MayBegin(p)
    /\ IF FIREBASE_ENABLED /\ remoteUp
       THEN req' = [req EXCEPT ![p] =
                [Idle EXCEPT !.op = "get_command", !.cmd_data = commands,
                             !.pc = IF Pending(commands) THEN "mark_cmd"
                                    ELSE "select_cmd"]]
       ELSE req' = [req EXCEPT ![p] =
                [Idle EXCEPT !.op = "get_command", !.pc = "select_cmd"]]
    /\ UNCHANGED <<remote, sqlite, env, nissued, delivered, hist>>

\* commands_ref.update({'executed': True}); return has_command: True.
\* A failure is printed and the handler goes on to SQLite
PollMarkCommand(p) ==
    /\ At(p, "get_command", "mark_cmd")
    /\ \/ /\ remoteUp
          /\ commands' = RefUpdate(commands, "executed", TRUE)
          /\ Respond(p, 200,
                PollBody(Get(req[p].cmd_data, "type", NoneStr),
                         Get(req[p].cmd_data, "value", NoneStr)),
                Get(req[p].cmd_data, "cid", 0))
       \/ /\ ~remoteUp
          /\ commands' = commands
          /\ Goto(p, "select_cmd")
    /\ UNCHANGED <<sensor_data, sqlite, env, nissued>>

\* conn = get_db(); command = conn.execute('SELECT ... ORDER BY created_at DESC
\* LIMIT 1').fetchone(), outside any transaction; with no row: return
\* has_command: False
PollSelectCommand(p) ==
    /\ At(p, "get_command", "select_cmd")
    /\ \/ /\ localUp
          /\ \E cmd \in Fetchone(SelectNewest(View(p).pump_commands)) :
                IF Truthy(cmd)
                THEN /\ req' = [req EXCEPT ![p].command = cmd, ![p].pc = "update_cmd"]
                     /\ UNCHANGED <<delivered, hist>>
                ELSE Respond(p, 200, [has_command |-> FALSE], 0)
          /\ UNCHANGED sqlite
       \/ /\ ~localUp
          /\ Raise(p, PollError)
    /\ UNCHANGED <<remote, env, nissued>>

\* conn.execute('UPDATE pump_commands SET executed = 1 WHERE id = ?',
\* (command['id'],)); conn.commit(); return has_command: True
PollUpdateCommand(p) ==
    /\ At(p, "get_command", "update_cmd")
    /\ \/ /\ localUp
          /\ CanWrite(p)
          /\ db' = [View(p) EXCEPT !.pump_commands = MarkRow(@, req[p].command.id)]
          /\ txn' = db'
          /\ dbLock' = NoProc
          /\ Respond(p, 200,
                PollBody(req[p].command.command_type, req[p].command.value),
                req[p].command.cid)
       \/ /\ ~localUp
          /\ Raise(p, PollError)
    /\ UNCHANGED <<remote, env, nissued>>

-----------------------------------------------------------------------------
(* get_data: GET /api/data *)

ESP32_TIMEOUT_SECONDS == 30

\* time_diff = (now_dt - last_update).total_seconds();
\* time_diff < ESP32_TIMEOUT_SECONDS
WithinTimeout(stamp, now_dt) ==
    now_dt - fromisoformat(stamp) < ESP32_TIMEOUT_SECONDS

\* esp32_online of the Firebase branch: False without a timestamp and when
\* the timestamp does not parse
FirebaseOnline(data, now_dt) ==
    IF Truthy(Get(data, "timestamp", None))
    THEN IF Parses(data.timestamp) THEN WithinTimeout(data.timestamp, now_dt)
         ELSE FALSE
    ELSE FALSE

\* the body of the Firebase branch
FirebaseSnapshot(data, now_dt) ==
    [soil_percent |-> Get(data, "soil_percent", List(<<0, 0, 0, 0>>)),
     soil_status |-> Get(data, "soil_status", Str("UNKNOWN")),
     pump_status |-> Get(data, "pump_status", Str("OFF")),
     mode |-> Get(data, "mode", Str("AUTO")),
     temperature |-> Get(data, "temperature", None),
     humidity |-> Get(data, "humidity", None),
     battery_voltage |-> Get(data, "battery_voltage", None),
     battery_percent |-> Get(data, "battery_percent", None),
     current_consumed |-> Get(data, "current_consumed", None),
     power |-> Get(data, "power", EmptyDict),
     esp32_online |-> FirebaseOnline(data, now_dt),
     last_update |-> Get(data, "timestamp", None),
     source |-> "firebase"]

\* `if data and data['last_update']:`
HasLastUpdate(data) == Truthy(data) /\ Truthy(data.last_update)

\* the except clause of the SQLite branch is entered: fromisoformat raised.
\* Its statement data.get('esp32_online', False) raises AttributeError
\* (sqlite3.Row has no get), which reaches the outer `except Exception`
SqliteRaises(data) == HasLastUpdate(data) /\ ~Parses(data.last_update)

\* esp32_online = bool(data['esp32_online']) and time_diff < ESP32_TIMEOUT_SECONDS
SqliteOnline(data, now_dt) ==
    IF HasLastUpdate(data)
    THEN data.esp32_online # 0 /\ WithinTimeout(data.last_update, now_dt)
    ELSE FALSE

\* `if not esp32_online and data['esp32_online']:`
MarksOffline(data, now_dt) ==
    HasLastUpdate(data) /\ ~SqliteOnline(data, now_dt) /\ data.esp32_online # 0

\* the body of the SQLite branch
SqliteSnapshot(data, esp32_online) ==
    IF Truthy(data)
    THEN [soil_percent |-> IF Truthy(data.soil_percent)
                           THEN json_loads(data.soil_percent)
                           ELSE List(<<0, 0, 0, 0>>),
          soil_status |-> data.soil_status,
          pump_status |-> data.pump_status,
          mode |-> data.mode,
          temperature |-> data.temperature,
          humidity |-> data.humidity,
          battery_voltage |-> data.battery_voltage,
          battery_percent |-> data.battery_percent,
          current_consumed |-> data.current_consumed,
          power |-> IF Truthy(data.power_data)
                    THEN json_loads(data.power_data) ELSE EmptyDict,
          esp32_online |-> esp32_online,
          last_update |-> data.last_update,
          source |-> "sqlite"]
    ELSE [esp32_online |-> FALSE]

DataError == [error |-> "error"]

\* (a faulty DataGet: the Firebase body is built from whatever get() returned,
\* an absent document included)
DataGetAnyDocument(p) ==
    /\ MayBegin(p)
    /\ IF FIREBASE_ENABLED /\ remoteUp
       THEN req' = [req EXCEPT ![p] =
                [Idle EXCEPT !.op = "get_data", !.pc = "return",
                             !.timestamp = isoformat(now),
                             !.response_data = FirebaseSnapshot(sensor_data, now)]]
       ELSE req' = [req EXCEPT ![p] =
                [Idle EXCEPT !.op = "get_data", !.pc = "select"]]
    /\ UNCHANGED <<remote, sqlite, env, nissued, delivered, hist>>

\* if FIREBASE_ENABLED and sensor_ref: data = sensor_ref.get(); `if data:`
\* the Firebase body is built (now_dt is the clock at this moment). Without
\* Firebase, with no document and on a failure the handler goes on to SQLite
DataGet(p) ==
    /\ MayBegin(p)
    /\ IF FIREBASE_ENABLED /\ remoteUp /\ Truthy(sensor_data)
       THEN req' = [req EXCEPT ![p] =
                [Idle EXCEPT !.op = "get_data", !.pc = "return",
                             !.timestamp = isoformat(now),
                             !.response_data = FirebaseSnapshot(sensor_data, now)]]
       ELSE req' = [req EXCEPT ![p] =
                [Idle EXCEPT !.op = "get_data", !.pc = "select"]]
    /\ UNCHANGED <<remote, sqlite, env, nissued, delivered, hist>>

\* conn = get_db(); data = SELECT * FROM sensor_current WHERE id = 1;
\* esp32_online is computed and the body built
DataSelect(p) ==
    /\ At(p, "get_data", "select")
    /\ \/ /\ localUp
          /\ LET data == View(p).sensor_current IN
             IF SqliteRaises(data)
             THEN Respond(p, 500, DataError, 0)
             ELSE /\ req' = [req EXCEPT
                        ![p].data = data,
                        ![p].timestamp = isoformat(now),
                        ![p].response_data = SqliteSnapshot(data, SqliteOnline(data, now)),
                        ![p].pc = IF MarksOffline(data, now) THEN "update" ELSE "return"]
                  /\ UNCHANGED <<delivered, hist>>
          /\ UNCHANGED sqlite
       \/ /\ ~localUp
          /\ Raise(p, DataError)
    /\ UNCHANGED <<remote, env, nissued>>

\* (a faulty DataUpdate: the row is replaced by a fresh offline row)
DataUpdateReplacesRow(p) ==
    /\ At(p, "get_data", "update")
    /\ \/ /\ localUp
          /\ CanWrite(p)
          /\ db' = [View(p) EXCEPT !.sensor_current = FirstRow]
          /\ txn' = db'
          /\ dbLock' = NoProc
          /\ Goto(p, "return")
       \/ /\ ~localUp
          /\ Raise(p, DataError)
    /\ UNCHANGED <<remote, env, nissued>>

\* conn.execute('UPDATE sensor_current SET esp32_online = 0 WHERE id = 1');
\* conn.commit()
DataUpdate(p) ==
    /\ At(p, "get_data", "update")
    /\ \/ /\ localUp
          /\ CanWrite(p)
          /\ db' = [View(p) EXCEPT !.sensor_current.esp32_online = 0]
          /\ txn' = db'
          /\ dbLock' = NoProc
          /\ Goto(p, "return")
       \/ /\ ~localUp
          /\ Raise(p, DataError)
    /\ UNCHANGED <<remote, env, nissued>>

\* conn.close(); return jsonify({...})
DataReturn(p) ==
    /\ At(p, "get_data", "return")
    /\ Respond(p, 200, req[p].response_data, 0)
    /\ UNCHANGED <<remote, sqlite, env, nissued>>

-----------------------------------------------------------------------------
(* set_mode: /api/mode/<mode>, set_pump: /api/pump/<state> *)

\* (a faulty Issue: with Firebase enabled the command is written to the
\* slot and also inserted into pump_commands)
IssueBoth(p, op, kind, arg) ==
    /\ MayBegin(p)
    /\ nissued < MaxIssue
    /\ localUp
    /\ CanWrite(p)
    /\ commands' = IF FIREBASE_ENABLED /\ remoteUp
                   THEN [type |-> kind, value |-> upper(arg), executed |-> FALSE,
                         cid |-> nissued + 1]
                   ELSE commands
    /\ db' = [View(p) EXCEPT !.pump_commands =
                      InsertRow(@, kind, upper(arg), nissued + 1)]
    /\ txn' = db'
    /\ dbLock' = NoProc
    /\ nissued' = nissued + 1
    /\ Reply(p, Logged(op, arg, 200, [success |-> TRUE]), 0)
    /\ UNCHANGED <<sensor_data, env>>

\* (a faulty Issue: the write lands also when the call answers with the
\* error)
IssueWritesThenFails(p, op, kind, arg) ==
    /\ MayBegin(p)
    /\ nissued < MaxIssue
    /\ CanWrite(p)
    /\ IF FIREBASE_ENABLED
       THEN /\ commands' = NewCommand(kind, upper(arg), nissued + 1)
            /\ UNCHANGED sqlite
            /\ Reply(p, Logged(op, arg, IF remoteUp THEN 200 ELSE 500,
                               IF remoteUp THEN [success |-> TRUE] ELSE IssueError), 0)
       ELSE /\ db' = [View(p) EXCEPT !.pump_commands =
                              InsertRow(@, kind, upper(arg), nissued + 1)]
            /\ txn' = db'
            /\ dbLock' = NoProc
            /\ commands' = commands
            /\ Reply(p, Logged(op, arg, IF localUp THEN 200 ELSE 500,
                               IF localUp THEN [success |-> TRUE] ELSE IssueError), 0)
    /\ nissued' = nissued + 1
    /\ UNCHANGED <<sensor_data, env>>

\* if FIREBASE_ENABLED and commands_ref: commands_ref.set({...})
\* else: conn = get_db(); conn.execute('INSERT INTO pump_commands ...');
\*       conn.commit()
\* return success: True; any failure reaches the outer except
Issue(p, op, kind, arg) ==
    /\ MayBegin(p)
    /\ nissued < MaxIssue
    /\ \/ /\ FIREBASE_ENABLED
          /\ remoteUp
          /\ commands' = NewCommand(kind, upper(arg), nissued + 1)
          /\ nissued' = nissued + 1
          /\ Reply(p, Logged(op, arg, 200, [success |-> TRUE]), 0)
          /\ UNCHANGED sqlite
       \/ /\ FIREBASE_ENABLED
          /\ ~remoteUp
          /\ Reply(p, Logged(op, arg, 500, IssueError), 0)
          /\ UNCHANGED <<commands, nissued, sqlite>>
       \/ /\ ~FIREBASE_ENABLED
          /\ localUp
          /\ CanWrite(p)
          /\ db' = [View(p) EXCEPT !.pump_commands =
                            InsertRow(@, kind, upper(arg), nissued + 1)]
          /\ txn' = db'
          /\ dbLock' = NoProc
          /\ nissued' = nissued + 1
          /\ Reply(p, Logged(op, arg, 200, [success |-> TRUE]), 0)
          /\ UNCHANGED commands
       \/ /\ ~FIREBASE_ENABLED
          /\ ~localUp
          /\ Reply(p, Logged(op, arg, 500, IssueError), 0)
          /\ UNCHANGED <<commands, nissued, sqlite>>
    /\ UNCHANGED <<sensor_data, env>>

set_mode(p, mode) == Issue(p, "set_mode", "mode", mode)

set_pump(p, state) == Issue(p, "set_pump", "pump", state)

-----------------------------------------------------------------------------
(* Environment *)

\* the Firebase service becomes unreachable / reachable again
RemoteFlip ==
    /\ remoteUp' = ~remoteUp
    /\ UNCHANGED <<FIREBASE_ENABLED, localUp, now, serial, remote, sqlite, req,
                   nissued, delivered, hist>>

\* SQLite statements start / stop failing (disk error, lock timeout)
LocalFlip ==
    /\ localUp' = ~localUp
    /\ UNCHANGED <<FIREBASE_ENABLED, remoteUp, now, serial, remote, sqlite, req,
                   nissued, delivered, hist>>

Tick ==
    /\ now < MaxTime
    /\ now' = now + 1
    /\ UNCHANGED <<FIREBASE_ENABLED, remoteUp, localUp, serial, remote, sqlite, req,
                   nissued, delivered, hist>>

\* the server is restarted with other settings: init_firebase() and init_db()
\* run again, both stores keep their content
Restart ==
    /\ \A p \in Procs : ~Busy(p)
    /\ FIREBASE_ENABLED' \in {init_firebase(cfg) : cfg \in Settings}
    /\ FIREBASE_ENABLED' # FIREBASE_ENABLED
    /\ db' = init_db(db)
    /\ txn' = db'
    /\ UNCHANGED <<remoteUp, localUp, now, serial, remote, dbLock, req,
                   nissued, delivered, hist>>

-----------------------------------------------------------------------------
(* Specifications *)

InitStores ==
    /\ commands = None
    /\ sensor_data = None
    /\ db = InitialDb
    /\ txn = InitialDb
    /\ dbLock = NoProc
    /\ req = [p \in Procs |-> Idle]
    /\ now = 0
    /\ nissued = 0
    /\ delivered = [c \in 1..MaxIssue |-> 0]
    /\ hist = <<>>

Handler(p) ==
    \/ \E data \in Reports : BeginPush(p, data)
    \/ PushSensorSet(p)
    \/ PushStore(p)
    \/ PushGetCommand(p)
    \/ PushMarkCommand(p)
    \/ PushCommit(p)
    \/ PushLocal(p)
    \/ PollGetCommand(p)
    \/ PollMarkCommand(p)
    \/ PollSelectCommand(p)
    \/ PollUpdateCommand(p)
    \/ \E mode \in ModeArgs : set_mode(p, mode)
    \/ \E state \in PumpArgs : set_pump(p, state)

\* One run of the server: requests are served concurrently, the stores fail
\* and recover
Init ==
    /\ InitStores
    /\ \E cfg \in Settings : FIREBASE_ENABLED = init_firebase(cfg)
    /\ remoteUp = TRUE
    /\ localUp = TRUE
    /\ serial = FALSE

Next ==
    \/ \E p \in Procs : Handler(p)
    \/ RemoteFlip
    \/ LocalFlip
    \/ Tick

Spec == Init /\ [][Next]_vars

\* One run of the server with both stores healthy throughout
NextHealthy ==
    \/ \E p \in Procs : Handler(p)
    \/ Tick

SpecHealthy == Init /\ [][NextHealthy]_vars

\* Requests are served one at a time and logged; each store is up or down
\* for the whole behaviour; between requests the server may be restarted
\* with other settings
InitSerial ==
    /\ InitStores
    /\ \E cfg \in Settings : FIREBASE_ENABLED = init_firebase(cfg)
    /\ remoteUp \in BOOLEAN
    /\ localUp \in BOOLEAN
    /\ serial = TRUE

NextSerial ==
    \/ \E p \in Procs : Handler(p)
    \/ Tick
    \/ Restart

SpecSerial == InitSerial /\ [][NextSerial]_vars

\* Requests are served one at a time and logged; Firebase becomes
\* unreachable and reachable again at any moment, also inside a request
NextOutage ==
    \/ \E p \in Procs : Handler(p)
    \/ Tick
    \/ RemoteFlip

SpecOutage == InitSerial /\ [][NextOutage]_vars

-----------------------------------------------------------------------------
(* The device state: pushes of two different reports and operator reads,   *)
(* with a clock that moves by the delays that matter to the timeout        *)

MaxClock == 60      \* largest value of the clock in the device-state specifications

\* two reports that differ in every field, the second without temperature
DeviceReports ==
    Reports \cup
    {[soil_percent |-> List(<<10, 10, 10, 10>>), soil_status |-> Str("WET"),
      pump_status |-> Str("OFF"), mode |-> Str("AUTO"), humidity |-> Num(55)]}

\* time that passes between two steps: just under the timeout, the timeout
Delays == {ESP32_TIMEOUT_SECONDS - 1, ESP32_TIMEOUT_SECONDS}

Elapse ==
    /\ \E d \in Delays : /\ now + d <= MaxClock
                         /\ now' = now + d
    /\ UNCHANGED <<FIREBASE_ENABLED, remoteUp, localUp, serial, remote, sqlite, req,
                   nissued, delivered, hist>>

DeviceHandler(p) ==
    \/ \E data \in DeviceReports : BeginPush(p, data)
    \/ PushSensorSet(p)
    \/ PushStore(p)
    \/ PushGetCommand(p)
    \/ PushMarkCommand(p)
    \/ PushCommit(p)
    \/ PushLocal(p)
    \/ DataGet(p)
    \/ DataSelect(p)
    \/ DataUpdate(p)
    \/ DataReturn(p)
    \/ \E state \in PumpArgs : set_pump(p, state)

NextDevice ==
    \/ \E p \in Procs : DeviceHandler(p)
    \/ Elapse

\* pushes and reads served concurrently, both stores healthy
SpecDevice == Init /\ [][NextDevice]_vars

\* pushes and reads served one at a time and logged, each store up or down
\* for the whole behaviour
SpecDeviceSerial == InitSerial /\ [][NextDevice]_vars

NextRestarts ==
    \/ NextDevice
    \/ Restart

\* pushes and reads served one at a time and logged, the server restarted
\* between requests with other settings
SpecRestarts == InitSerial /\ [][NextRestarts]_vars

\* a stored timestamp that datetime.fromisoformat rejects
Unparsable == [text |-> "not a timestamp"]

\* another client of the Firebase database writes the document's timestamp
\* in a format of its own
ForeignDocument ==
    /\ Truthy(sensor_data)
    /\ Get(sensor_data, "timestamp", None) # Unparsable
    /\ sensor_data' = [a \in DOMAIN sensor_data \cup {"timestamp"} |->
                          IF a = "timestamp" THEN Unparsable ELSE sensor_data[a]]
    /\ UNCHANGED <<commands, sqlite, env, req, nissued, delivered, hist>>

\* another program with access to soilsense.db writes last_update in a
\* format of its own
ForeignRow ==
    /\ dbLock = NoProc
    /\ db.sensor_current.last_update # Unparsable
    /\ db' = [db EXCEPT !.sensor_current.last_update = Unparsable]
    /\ txn' = db'
    /\ UNCHANGED <<dbLock, remote, env, req, nissued, delivered, hist>>

NextForeign ==
    \/ NextDevice
    \/ ForeignDocument
    \/ ForeignRow

\* pushes and reads served one at a time and logged, over stores that
\* other programs write too
SpecForeign == InitSerial /\ [][NextForeign]_vars

\* Requests are served one at a time and logged; each store starts failing
\* and recovers at any moment, also inside a request
NextFaults ==
    \/ \E p \in Procs : Handler(p)
    \/ RemoteFlip
    \/ LocalFlip

SpecFaults == InitSerial /\ [][NextFaults]_vars

\* every operation of the device and of the operator
AnyHandler(p) ==
    \/ Handler(p)
    \/ DataGet(p)
    \/ DataSelect(p)
    \/ DataUpdate(p)
    \/ DataReturn(p)

NextAll ==
    \/ \E p \in Procs : AnyHandler(p)
    \/ Elapse

\* all operations served one at a time and logged, each store up or down
\* for the whole behaviour, the server started with every combination of
\* settings
SpecAll == InitSerial /\ [][NextAll]_vars

-----------------------------------------------------------------------------
(* Ingest of every kind of request body *)

\* request.get_json() of a report with three channels
ThreeChannels ==
    [soil_percent |-> List(<<30, 60, 90>>), mode |-> Str("AUTO"),
     temperature |-> Num(0)]

\* of a report with no channel
NoChannel == [soil_percent |-> List(<<>>), pump_status |-> Str("ON")]

\* of a report whose soil_percent is one number, not a list
ScalarSoil == [soil_percent |-> Num(55), soil_status |-> Str("DRY")]

\* of a body that is JSON but no object
NotObject == List(<<1>>)

IngestBodies ==
    DeviceReports \cup {EmptyDict, ThreeChannels, NoChannel, ScalarSoil, NotObject}

IngestHandler(p) ==
    \/ \E data \in IngestBodies : BeginPush(p, data)
    \/ PushSensorSet(p)
    \/ PushStore(p)
    \/ PushGetCommand(p)
    \/ PushMarkCommand(p)
    \/ PushCommit(p)
    \/ PushLocal(p)
    \/ \E state \in PumpArgs : set_pump(p, state)

NextIngest == \E p \in Procs : IngestHandler(p)

\* pushes of every kind of body and set_pump, served one at a time and
\* logged, each store up or down for the whole behaviour
SpecIngest == InitSerial /\ [][NextIngest]_vars

\* the bodies of the device-facing calls: a report, a report whose history
\* row cannot be built, and no JSON object (a missing body ends the same
\* way: get_json() raises or returns None, and no store is written)
TakeBodies == Reports \cup {ScalarSoil, NotObject}

\* the steps of the device-facing handlers once the request has begun
TakeStep(p) ==
    \/ PushSensorSet(p)
    \/ PushStore(p)
    \/ PushGetCommand(p)
    \/ PushMarkCommand(p)
    \/ PushCommit(p)
    \/ PushLocal(p)
    \/ PollMarkCommand(p)
    \/ PollSelectCommand(p)
    \/ PollUpdateCommand(p)

TakeHandler(p) ==
    \/ \E data \in TakeBodies : BeginPush(p, data)
    \/ PollGetCommand(p)
    \/ TakeStep(p)
    \/ \E state \in PumpArgs : set_pump(p, state)

NextTakes ==
    \/ \E p \in Procs : TakeHandler(p)
    \/ RemoteFlip
    \/ LocalFlip

\* push and get_command served one at a time and logged, the stores failing
\* and recovering at any moment; the worker serving a request keeps running
SpecTakes ==
    /\ InitSerial
    /\ [][NextTakes]_vars
    /\ \A p \in Procs : WF_vars(TakeStep(p))

-----------------------------------------------------------------------------
(* The local queue under set_mode / set_pump calls without end               *)
(*                                                                         *)
(* Every SELECT on pump_commands has WHERE executed = 0, so a row marked   *)
(* executed is never read again: here the queue is kept as its unexecuted  *)
(* rows only, in the order of their created_at (the clock moves between    *)
(* two calls, so these differ), and id and created_at are a row's place in *)
(* that order.                                                             *)

MaxQueue == 2       \* unexecuted rows in pump_commands at one time

\* the unexecuted rows, oldest first, numbered again
Waiting(rows) ==
    LET live == SelectSeq(rows, LAMBDA r : r.executed = 0) IN
    [i \in 1..Len(live) |-> [live[i] EXCEPT !.id = i, !.created_at = i]]

\* a stamp no waiting row carries
FreshStamp(rows) ==
    CHOOSE c \in 1..(MaxQueue + 1) : \A i \in DOMAIN rows : rows[i].cid # c

\* set_mode / set_pump without Firebase: conn = get_db(); INSERT INTO
\* pump_commands ...; conn.commit(); return success: True
IssueQueued(p, kind, arg) ==
    /\ \A q \in Procs : ~Busy(q)
    /\ ~FIREBASE_ENABLED
    /\ localUp
    /\ CanWrite(p)
    /\ LET rows == Waiting(View(p).pump_commands) IN
       /\ Len(rows) < MaxQueue
       /\ db' = [View(p) EXCEPT !.pump_commands =
                     Append(rows, [id |-> Len(rows) + 1, command_type |-> kind,
                                   value |-> upper(arg), created_at |-> Len(rows) + 1,
                                   executed |-> 0, cid |-> FreshStamp(rows)])]
    /\ txn' = db'
    /\ dbLock' = NoProc
    /\ UNCHANGED <<remote, env, req, nissued, delivered, hist>>

\* the device takes: a push or a get_command, one request at a time
DeviceStep ==
    \E p \in Procs :
        \/ /\ \A q \in Procs : ~Busy(q)
           /\ \E data \in Reports : BeginPush(p, data)
        \/ PushLocal(p)
        \/ /\ \A q \in Procs : ~Busy(q)
           /\ PollGetCommand(p)
        \/ PollSelectCommand(p)
        \/ PollUpdateCommand(p)

OperatorStep ==
    \E p \in Procs :
        \/ \E mode \in ModeArgs : IssueQueued(p, "mode", mode)
        \/ \E state \in PumpArgs : IssueQueued(p, "pump", state)

InitQueue ==
    /\ InitStores
    /\ FIREBASE_ENABLED = FALSE
    /\ remoteUp \in BOOLEAN
    /\ localUp = TRUE
    /\ serial = FALSE

NextQueue == DeviceStep \/ OperatorStep

\* without Firebase and with SQLite healthy: the operator issues commands
\* at any moment and without end, the device keeps taking, through push or
\* through get_command as it likes
SpecQueue == InitQueue /\ [][NextQueue]_vars /\ WF_vars(DeviceStep)

-----------------------------------------------------------------------------
(* Properties *)

Stamps == 1..MaxIssue

AllIdle == \A p \in Procs : ~Busy(p)

\* command c sits in the Firebase slot marked executed
RemoteExecuted(c) == /\ Truthy(commands)
                     /\ Get(commands, "cid", 0) = c
                     /\ Get(commands, "executed", TRUE)

\* command c is a committed row of pump_commands marked executed
LocalExecuted(c) ==
    \E i \in DOMAIN db.pump_commands :
        db.pump_commands[i].cid = c /\ db.pump_commands[i].executed = 1

\* a request in flight will carry command c in its response unless it fails
Carrying(p, c) == Busy(p) /\ req[p].carried = c

\* C1: with Firebase enabled and healthy, a command issued once is carried
\* by at most one take response (push or get_command), however the takes
\* interleave.
C1_RemoteAtMostOnce ==
    FIREBASE_ENABLED => \A c \in Stamps : delivered[c] <= 1

\* C2: without Firebase, every row of pump_commands is carried by at most
\* one take response, however the takes (each on its own connection)
\* interleave.
C2_LocalAtMostOnce ==
    ~FIREBASE_ENABLED => \A c \in Stamps : delivered[c] <= 1

\* C3: a command is marked executed only by a call whose response carries
\* that command: every executed command has been carried by a response, or
\* the request that marked it is still in flight and carries it.
C3_ExecutedOnlyIfCarried ==
    \A c \in Stamps :
        (RemoteExecuted(c) \/ LocalExecuted(c)) =>
            \/ delivered[c] >= 1
            \/ \E p \in Procs : Carrying(p, c)

-----------------------------------------------------------------------------
(* Properties of the call log (requests served one at a time) *)

Calls == 1..Len(hist)

IsCall(i, op, firebase) ==
    i \in Calls /\ hist[i].op = op /\ hist[i].firebase = firebase

\* no command was queued locally before call i
LocalQueueEmptyBefore(i) ==
    \A j \in 1..(i - 1) : ~(hist[j].op \in IssueOps /\ ~hist[j].firebase)

\* C4: with Firebase enabled and both stores healthy, the push that follows
\* set_mode('manual') answers success with command {mode, MANUAL}, and the
\* push right after it answers success with no command.
C4_RepollIngest ==
    (remoteUp /\ localUp) =>
        \A i \in Calls :
            (IsCall(i, "set_mode", TRUE) /\ hist[i].arg = "manual"
                /\ IsCall(i + 1, "push", TRUE)) =>
                /\ hist[i + 1].status = 200
                /\ hist[i + 1].body =
                       [success |-> TRUE,
                        command |-> [type |-> "mode", value |-> "MANUAL"]]
                /\ IsCall(i + 2, "push", TRUE) =>
                       /\ hist[i + 2].status = 200
                       /\ hist[i + 2].body = [success |-> TRUE]

C4_Witness ==
    /\ remoteUp /\ localUp
    /\ Len(hist) = 3
    /\ IsCall(1, "set_mode", TRUE) /\ hist[1].arg = "manual"
    /\ IsCall(2, "push", TRUE) /\ "command" \in DOMAIN hist[2].body
    /\ IsCall(3, "push", TRUE) /\ "command" \notin DOMAIN hist[3].body

\* C5: without Firebase, with a healthy SQLite store and an empty queue, the
\* get_command that follows set_pump('on') answers has_command with type
\* pump and value ON, and the get_command right after it answers
\* has_command: false.
C5_RepollCommandPoll ==
    localUp =>
        \A i \in Calls :
            (IsCall(i, "set_pump", FALSE) /\ hist[i].arg = "on"
                /\ LocalQueueEmptyBefore(i)
                /\ IsCall(i + 1, "get_command", FALSE)) =>
                /\ hist[i + 1].status = 200
                /\ hist[i + 1].body =
                       [has_command |-> TRUE, type |-> "pump", value |-> "ON"]
                /\ IsCall(i + 2, "get_command", FALSE) =>
                       /\ hist[i + 2].status = 200
                       /\ hist[i + 2].body = [has_command |-> FALSE]

C5_Witness ==
    /\ localUp
    /\ Len(hist) = 3
    /\ IsCall(1, "set_pump", FALSE) /\ hist[1].arg = "on"
    /\ IsCall(2, "get_command", FALSE) /\ hist[2].body.has_command
    /\ IsCall(3, "get_command", FALSE) /\ ~hist[3].body.has_command

-----------------------------------------------------------------------------
(* Properties of single calls (requests served one at a time) *)

\* this step returns the response of a call to one of ops
Returned(ops) == /\ Len(hist') = Len(hist) + 1
                 /\ hist'[Len(hist')].op \in ops

KindOf(op) == IF op = "set_mode" THEN "mode" ELSE "pump"

\* this step appends one unexecuted row (kind, value) to pump_commands and
\* changes nothing else in the database
LocalAppended(kind, value) ==
    LET rows == db.pump_commands
        last == db'.pump_commands[Len(db'.pump_commands)] IN
    /\ Len(db'.pump_commands) = Len(rows) + 1
    /\ db' = [db EXCEPT !.pump_commands = Append(rows, last)]
    /\ last.command_type = kind
    /\ last.value = value
    /\ last.executed = 0

\* this step overwrites the Firebase slot with a new unexecuted command
RemoteOverwritten(kind, value) ==
    /\ Truthy(commands')
    /\ Get(commands', "type", NoneStr) = kind
    /\ Get(commands', "value", NoneStr) = value
    /\ Get(commands', "executed", TRUE) = FALSE
    /\ Get(commands', "cid", 0) = nissued'
    /\ nissued' = nissued + 1

C7_IssueSurvivesRemoteFailure ==
    [][(Returned(IssueOps) /\ FIREBASE_ENABLED /\ ~remoteUp /\ localUp) =>
        LET call == hist'[Len(hist')] IN
        /\ call.status = 200
        /\ LocalAppended(KindOf(call.op), upper(call.arg))]_vars

TakeOps == {"push", "get_command"}

\* the response body carries a command
CarriesCommand(call) ==
    IF call.op = "push" THEN "command" \in DOMAIN call.body
    ELSE call.body.has_command

\* C8: with Firebase enabled and SQLite healthy, a take (push or
\* get_command) that finds nothing pending in the Firebase slot, or whose
\* Firebase read raises, goes on to pump_commands: it never answers without
\* a command while an unexecuted row is left there.
C8_TakeFallsThroughToLocal ==
    [][(Returned(TakeOps) /\ FIREBASE_ENABLED /\ localUp) =>
        LET call == hist'[Len(hist')] IN
        ~CarriesCommand(call) => Unexecuted(db'.pump_commands) = {}]_vars

\* C9: the row of pump_commands a take marks executed is, among the rows
\* unexecuted before it, one with the smallest created_at.
C9_LocalQueueFifo ==
    [][\A i \in DOMAIN db.pump_commands :
        (db.pump_commands[i].executed = 0 /\ db'.pump_commands[i].executed = 1) =>
            \A j \in Unexecuted(db.pump_commands) :
                db.pump_commands[i].created_at <= db.pump_commands[j].created_at]_vars

-----------------------------------------------------------------------------
(* The command step of either endpoint as a function of the mailbox: the   *)
(* Firebase slot, the rows of pump_commands, whether Firebase is enabled   *)
(* and whether it answers. A result is the command the response carries    *)
(* (None for no command) with the slot and the rows the step leaves; the   *)
(* set holds one result for each row fetchone() may return.                *)

TakeResult(command, slot, rows) ==
    [command |-> command, commands |-> slot, pump_commands |-> rows]

\* Firebase enabled, the slot is read and holds a pending command: both
\* endpoints answer with it and update executed
RemoteTake(slot, rows) ==
    {TakeResult(CommandOf(slot), RefUpdate(slot, "executed", TRUE), rows)}

\* the SQLite branch, on the row(s) the SELECT may return
LocalTake(candidates, slot, rows) ==
    {IF Truthy(cmd)
     THEN TakeResult(CommandOfRow(cmd), slot, MarkRow(rows, cmd.id))
     ELSE TakeResult(None, slot, rows) : cmd \in Fetchone(candidates)}

\* esp32_push_data: `if FIREBASE_ENABLED and commands_ref:` the slot, with
\* a failed read swallowed and nothing else tried; `else:` the oldest row
PushTake(enabled, up, slot, rows) ==
    IF enabled
    THEN IF up /\ Pending(slot)
         THEN RemoteTake(slot, rows)
         ELSE {TakeResult(None, slot, rows)}
    ELSE LocalTake(SelectOldest(rows), slot, rows)

\* esp32_get_command: a pending command of the slot returns at once; in
\* every other case (not enabled, nothing pending, failed read) the newest
\* row
PollTake(enabled, up, slot, rows) ==
    IF enabled /\ up /\ Pending(slot)
    THEN RemoteTake(slot, rows)
    ELSE LocalTake(SelectNewest(rows), slot, rows)

\* C10: started between requests from the same mailbox (slot, queue,
\* Firebase enabled or not, answering or failing) with SQLite healthy, the
\* command step of push and get_command select the same command (or both
\* none) and leave the slot and the queue in the same state.
C10_TakesEquivalent ==
    (AllIdle /\ localUp) =>
        PushTake(FIREBASE_ENABLED, remoteUp, commands, db.pump_commands)
            = PollTake(FIREBASE_ENABLED, remoteUp, commands, db.pump_commands)

-----------------------------------------------------------------------------
(* The Firebase slot under set_mode / set_pump *)

\* the command a response body carries, None for no command
BodyCommand(call) ==
    IF ~CarriesCommand(call) THEN None
    ELSE IF call.op = "push" THEN call.body.command
    ELSE [type |-> call.body.type, value |-> call.body.value]

\* call i is a set_mode / set_pump that wrote the Firebase slot
RemoteIssue(i) ==
    i \in Calls /\ hist[i].op \in IssueOps /\ hist[i].firebase /\ hist[i].status = 200

\* the command call i issued
IssuedCommand(i) == [type |-> KindOf(hist[i].op), value |-> upper(hist[i].arg)]

\* this step returns a take whose command comes from the Firebase slot: a
\* push with Firebase enabled, or a get_command that updates the slot
ReturnedFromRemote ==
    /\ Returned(TakeOps)
    /\ CarriesCommand(hist'[Len(hist')])
    /\ IF hist'[Len(hist')].op = "push" THEN FIREBASE_ENABLED
       ELSE commands' # commands

\* C11: the Firebase slot holds one command; a set_mode / set_pump with
\* Firebase enabled replaces whatever the slot holds, pending or not, and
\* every command a later take returns from the slot is the one of the most
\* recent such call: a replaced command is never returned again.
C11_ReissueSupersedes ==
    [][/\ (Returned(IssueOps) /\ FIREBASE_ENABLED /\ remoteUp) =>
            /\ commands' = [type |-> KindOf(hist'[Len(hist')].op),
                            value |-> upper(hist'[Len(hist')].arg),
                            executed |-> FALSE, cid |-> nissued']
       /\ ReturnedFromRemote =>
            \E j \in Calls :
                /\ RemoteIssue(j)
                /\ \A k \in Calls : RemoteIssue(k) => k <= j
                /\ BodyCommand(hist'[Len(hist')]) = IssuedCommand(j)]_vars

\* mode MANUAL was replaced in the slot while pending by mode AUTO (or the
\* other way round), and the take that followed returned the second
C11_Witness ==
    /\ Len(hist) = 3
    /\ RemoteIssue(1) /\ RemoteIssue(2)
    /\ hist[1].op = "set_mode" /\ hist[2].op = "set_mode"
    /\ hist[1].arg # hist[2].arg
    /\ hist[3].op \in TakeOps /\ hist[3].firebase
    /\ BodyCommand(hist[3]) = IssuedCommand(2)
    /\ delivered[1] = 0 /\ delivered[2] = 1

\* the commands a take can still find: the slot's command while pending and
\* the unexecuted rows of pump_commands, each with its kind
PendingCommands(slot, rows) ==
    (IF Pending(slot)
     THEN {[cid |-> Get(slot, "cid", 0), type |-> Get(slot, "type", NoneStr)]}
     ELSE {})
    \cup {[cid |-> rows[i].cid, type |-> rows[i].command_type] : i \in Unexecuted(rows)}

\* C12: with Firebase enabled, a set_mode / set_pump leaves every pending
\* command of the other kind pending: a later take can still find it.
C12_IssueKeepsOtherKind ==
    [][(Returned(IssueOps) /\ FIREBASE_ENABLED /\ remoteUp) =>
        \A c \in PendingCommands(commands, db.pump_commands) :
            c.type # KindOf(hist'[Len(hist')].op) =>
                c \in PendingCommands(commands', db'.pump_commands)]_vars

-----------------------------------------------------------------------------
(* Lifecycle of a command *)

\* from rows to rows2 no row is removed or altered, except that executed
\* may go from 0 to 1
RowsOnlyAdvance(rows, rows2) ==
    /\ Len(rows2) >= Len(rows)
    /\ \A i \in DOMAIN rows :
        /\ rows2[i] = [rows[i] EXCEPT !.executed = rows2[i].executed]
        /\ rows2[i].executed >= rows[i].executed

\* C13: in pump_commands, committed or seen inside a transaction, no step
\* removes a row or sets executed back from 1 to 0, so the number of rows
\* never decreases; in the Firebase slot executed goes from true to false
\* only in a step of set_mode / set_pump that stores a new command, and the
\* command in the slot changes in no other way than by that and by executed
\* becoming true.
C13_LifecycleOneWay ==
    [][/\ RowsOnlyAdvance(db.pump_commands, db'.pump_commands)
       /\ RowsOnlyAdvance(txn.pump_commands, txn'.pump_commands)
       /\ \/ commands' = commands
          \/ commands' = RefUpdate(commands, "executed", TRUE)
          \/ /\ nissued' = nissued + 1
             /\ Get(commands', "cid", 0) = nissued'
             /\ Get(commands', "executed", TRUE) = FALSE]_vars

\* a command was taken from the slot and marked executed, then a second
\* command was issued into the slot and is pending
C13_Witness ==
    /\ FIREBASE_ENABLED
    /\ delivered[1] = 1
    /\ Get(commands, "cid", 0) = 2
    /\ ~Get(commands, "executed", TRUE)
    /\ AllIdle

-----------------------------------------------------------------------------
(* Which backend a take uses *)

\* C14: a take (push or get_command) served while Firebase is enabled and
\* its read of the slot succeeds leaves pump_commands as it is and carries
\* no command other than the slot's: no queued row is delivered by it.
C14_LocalUntouchedWhenRemoteReads ==
    [][(Returned(TakeOps) /\ FIREBASE_ENABLED /\ remoteUp) =>
        /\ db'.pump_commands = db.pump_commands
        /\ CarriesCommand(hist'[Len(hist')]) => ReturnedFromRemote]_vars

\* call i is a set_mode / set_pump that answered success
IssueDone(i) == i \in Calls /\ hist[i].op \in IssueOps /\ hist[i].status = 200

\* the call that issued command c: the c-th successful set_mode / set_pump
StampCall(c) ==
    CHOOSE i \in Calls :
        IssueDone(i) /\ Cardinality({j \in 1..i : IssueDone(j)}) = c

InSlot(c, slot) == Truthy(slot) /\ Get(slot, "cid", 0) = c

InQueue(c, rows) == \E i \in DOMAIN rows : rows[i].cid = c

-----------------------------------------------------------------------------
(* The device state as get_data reads it back *)

\* the request whose response this step returns
Returning(p) == Busy(p) /\ ~Busy(p)'

\* what a read is expected to return of report d pushed at time t, apart
\* from the online flag and the source
ReadBack(d, t) ==
    [soil_percent |-> d.soil_percent,
     soil_status |-> d.soil_status,
     pump_status |-> d.pump_status,
     mode |-> d.mode,
     temperature |-> IF "temperature" \in DOMAIN d THEN d.temperature ELSE None,
     humidity |-> IF "humidity" \in DOMAIN d THEN d.humidity ELSE None,
     battery_voltage |-> None,
     battery_percent |-> None,
     current_consumed |-> None,
     power |-> EmptyDict,
     last_update |-> isoformat(t)]

\* a response body without its online flag and its source
Fields(body) ==
    [k \in DOMAIN body \ {"esp32_online", "source"} |-> body[k]]

Clock == 0..MaxClock

\* C16: with Firebase enabled and every Firebase call failing, a push still
\* stores its report in sensor_current and answers success: true, and the
\* get_data that follows answers with exactly that report, source sqlite
\* (the local backend) and the online flag of its age.
C16_FallbackOnRemoteFailure ==
    [][(FIREBASE_ENABLED /\ ~remoteUp /\ localUp) =>
        /\ \A p \in Procs : (Returning(p) /\ req[p].op = "push") =>
            /\ hist'[Len(hist')].status = 200
            /\ hist'[Len(hist')].body = [success |-> TRUE]
            /\ db'.sensor_current = SensorRow(req[p].data, req[p].timestamp)
       /\ \A p \in Procs :
            (/\ Returning(p) /\ req[p].op = "get_data"
             /\ Len(hist) > 0 /\ hist[Len(hist)].op = "push") =>
                LET call == hist'[Len(hist')] IN
                /\ call.status = 200
                /\ \E d \in DeviceReports, t \in Clock :
                    /\ [db.sensor_current EXCEPT !.esp32_online = 1] =
                           SensorRow(d, isoformat(t))
                    /\ Fields(call.body) = ReadBack(d, t)
                    /\ call.body.source = "sqlite"
                    /\ call.body.esp32_online =
                         (fromisoformat(req[p].timestamp) - t < ESP32_TIMEOUT_SECONDS)]_vars

\* Firebase is enabled and failing; the second report was pushed and the
\* read that followed returned it from SQLite
C16_Witness ==
    /\ FIREBASE_ENABLED /\ ~remoteUp /\ localUp
    /\ Len(hist) = 2
    /\ hist[1].op = "push" /\ hist[1].status = 200
    /\ hist[2].op = "get_data" /\ hist[2].status = 200
    /\ hist[2].body.source = "sqlite"
    /\ hist[2].body.soil_status = Str("WET")
    /\ hist[2].body.soil_percent = List(<<10, 10, 10, 10>>)

\* what a read returns before any report was pushed
EmptyState ==
    [soil_percent |-> List(<<0, 0, 0, 0>>),
     soil_status |-> None, pump_status |-> None, mode |-> None,
     temperature |-> None, humidity |-> None, battery_voltage |-> None,
     battery_percent |-> None, current_consumed |-> None,
     power |-> EmptyDict, last_update |-> None]

\* the request has built the body it is going to return
HasBody(p) == req[p].op = "get_data" /\ req[p].pc \in {"update", "return"}

\* C17: however pushes and reads interleave, the body of every read is,
\* field for field, one pushed report as stored with its timestamp, or the
\* empty state from before the first push; never fields of two reports.
C17_AtomicReplace ==
    \A p \in Procs : HasBody(p) =>
        \/ Fields(req[p].response_data) = EmptyState
        \/ \E d \in DeviceReports, t \in Clock :
                Fields(req[p].response_data) = ReadBack(d, t)

\* a read is about to return the second report while the other worker is
\* in the middle of pushing the first
C17_Witness ==
    \E p, q \in Procs :
        /\ HasBody(p)
        /\ req[p].response_data.soil_status = Str("WET")
        /\ req[q].op = "push" /\ req[q].pc \in {"store", "get_cmd", "commit", "local"}
        /\ req[q].data.soil_status = Str("DRY")

\* C18: with Firebase enabled and healthy, once the pushes made so far have
\* all returned, sequential or overlapping, the Firebase document and the
\* row of sensor_current hold the same report: a read served from either
\* returns the same fields.
C18_BackendsAgree ==
    (FIREBASE_ENABLED /\ AllIdle /\ Truthy(sensor_data)) =>
        Fields(FirebaseSnapshot(sensor_data, now))
            = Fields(SqliteSnapshot(db.sensor_current, FALSE))

\* C19: in the body of every read, whichever backend served it and however
\* it interleaved with pushes and other reads, esp32_online is true exactly
\* when the body has a last_update and the read's clock is less than
\* ESP32_TIMEOUT_SECONDS past it.
C19_OnlineIffWithinTimeout ==
    \A p \in Procs : HasBody(p) =>
        LET body == req[p].response_data
            now_dt == fromisoformat(req[p].timestamp) IN
        body.esp32_online =
            (/\ Truthy(body.last_update)
             /\ now_dt - fromisoformat(body.last_update) < ESP32_TIMEOUT_SECONDS)

\* C20: a read that finds a stored last-seen it cannot parse still answers
\* with a normal body, never an error: served from Firebase its online flag
\* is false, served from SQLite (healthy) it is the stored esp32_online.
C20_MalformedLastSeenDegrades ==
    [][\A p \in Procs : (Returning(p) /\ req[p].op = "get_data") =>
        LET call == hist'[Len(hist')]
            row == db.sensor_current IN
        /\ (/\ call.status = 200
            /\ call.body.source = "firebase"
            /\ call.body.last_update = Unparsable) => ~call.body.esp32_online
        /\ (/\ req[p].pc = "select" /\ localUp
            /\ row.last_update = Unparsable) =>
                /\ call.status = 200
                /\ call.body.source = "sqlite"
                /\ call.body.esp32_online = (row.esp32_online # 0)]_vars

-----------------------------------------------------------------------------
(* Failures inside esp32_push_data *)

\* the request p is a push whose response this step returns
PushReturns(p) == Returning(p) /\ req[p].op = "push"

\* a take by push would find a command: the slot's when Firebase is enabled
\* and answers, else an unexecuted row
CommandWaiting ==
    IF FIREBASE_ENABLED THEN remoteUp /\ Pending(commands)
    ELSE Unexecuted(db.pump_commands) # {}

\* C21: a push whose history append fails (the row cannot be built from the
\* report's soil_percent) while SQLite is healthy still answers success:
\* true with no error, and carries the pending command if there is one.
C21_HistoryFailureInvisible ==
    [][\A p \in Procs :
        (/\ PushReturns(p) /\ localUp
         /\ IsDict(req[p].data) /\ HistoryRaises(req[p].data)) =>
            LET call == hist'[Len(hist')] IN
            /\ call.status = 200
            /\ call.body.success
            /\ "error" \notin DOMAIN call.body
            /\ CommandWaiting => CarriesCommand(call)]_vars

\* C22: a push whose SQLite write (UPDATE, INSERT or the SELECT / UPDATE of
\* the queue) or whose commit fails answers success: false with an error and
\* status 500, carries no command, and leaves the database as it was.
C22_LocalFailureFatal ==
    [][\A p \in Procs : (PushReturns(p) /\ ~localUp) =>
            LET call == hist'[Len(hist')] IN
            /\ call.status = 500
            /\ ~call.body.success
            /\ "error" \in DOMAIN call.body
            /\ ~CarriesCommand(call)
            /\ db' = db]_vars

\* the last call is a push that read a pending command from the slot and
\* marked it executed, and whose commit then failed: it answered 500 after
\* an earlier push had stored a report
C22_Witness ==
    /\ Len(hist) = 3
    /\ hist[1].op \in IssueOps /\ hist[1].status = 200 /\ hist[1].firebase
    /\ hist[2].op = "push" /\ hist[2].status = 200 /\ ~CarriesCommand(hist[2])
    /\ hist[3].op = "push" /\ hist[3].status = 500
    /\ Get(commands, "executed", FALSE)
    /\ delivered[1] = 0
    /\ db.sensor_current.esp32_online = 1

-----------------------------------------------------------------------------
(* Responses of the device-facing calls *)

\* jsonify(response_data) / the error form of esp32_push_data
PushWellFormed(call) ==
    \/ /\ call.status = 200
       /\ DOMAIN call.body \in {{"success"}, {"success", "command"}}
       /\ call.body.success
    \/ /\ call.status = 500
       /\ DOMAIN call.body = {"success", "error"}
       /\ ~call.body.success

\* the three forms of esp32_get_command
PollWellFormed(call) ==
    \/ /\ call.status = 200
       /\ DOMAIN call.body = {"has_command", "type", "value"}
       /\ call.body.has_command
    \/ /\ call.status = 200
       /\ DOMAIN call.body = {"has_command"}
       /\ ~call.body.has_command
    \/ /\ call.status = 500
       /\ DOMAIN call.body = {"has_command", "error"}
       /\ ~call.body.has_command

\* C23: every push and every get_command, whatever its body and however
\* the stores fail while it is served, returns: a request in flight always
\* ends, and its response is the success form with status 200 or the error
\* form with status 500, never one without a body.
C23_TakesAlwaysAnswer ==
    /\ [](\A i \in Calls :
            /\ hist[i].op = "push" => PushWellFormed(hist[i])
            /\ hist[i].op = "get_command" => PollWellFormed(hist[i]))
    /\ \A p \in Procs : (req[p].op \in TakeOps) ~> ~Busy(p)

\* the call log is full; a push and a get_command have both ended in the
\* error form
C23_Witness ==
    /\ Len(hist) = MaxCalls
    /\ \E i \in Calls : hist[i].op = "push" /\ hist[i].status = 500
    /\ \E i \in Calls : hist[i].op = "get_command" /\ hist[i].status = 500
    /\ AllIdle

-----------------------------------------------------------------------------
(* Which backend a read is served from *)

\* this step is the first of a get_data served by p
DataBegins(p) == ~Busy(p) /\ req'[p].op = "get_data"

\* C24: a get_data reads Firebase when it is enabled and the read succeeds,
\* and then answers with the Firebase document, source firebase (the remote
\* backend); when Firebase is not enabled or the read raises it goes to
\* SQLite, once, and a response served from there is the row of
\* sensor_current, source sqlite (the local backend). Every body is the
\* snapshot of one backend and says which.
C24_ReadProvenance ==
    [][\A p \in Procs :
        /\ DataBegins(p) =>
              IF FIREBASE_ENABLED /\ remoteUp
              THEN /\ req'[p].pc = "return"
                   /\ req'[p].response_data = FirebaseSnapshot(sensor_data, now)
              ELSE req'[p].pc = "select"
        /\ (Returning(p) /\ req[p].op = "get_data"
              /\ hist'[Len(hist')].status = 200) =>
              LET body == hist'[Len(hist')].body IN
              /\ body.source \in {"firebase", "sqlite"}
              /\ body.source = "sqlite" =>
                    body = SqliteSnapshot(db.sensor_current, body.esp32_online)]_vars

-----------------------------------------------------------------------------
(* What a push stores *)

TextFields == {"pump_status", "mode", "soil_status"}

NumberFields == {"temperature", "humidity", "battery_voltage", "battery_percent",
                 "current_consumed"}

\* what the claim has stored for field k of report data
Filled(data, k) ==
    IF k \in DOMAIN data THEN data[k]
    ELSE CASE k = "pump_status" -> Str("OFF")
           [] k = "mode" -> Str("AUTO")
           [] k = "soil_status" -> Str("UNKNOWN")
           [] OTHER -> None

\* C25: after a push that answers success, sensor_current holds, and with
\* Firebase enabled and answering the document sensor_data holds as well,
\* for pump_status, mode, soil_status and the five numbers: the report's
\* value when it has one, else "OFF", "AUTO", "UNKNOWN" and null (never 0).
C25_DefaultFilling ==
    [][\A p \in Procs :
        (PushReturns(p) /\ hist'[Len(hist')].status = 200) =>
            /\ \A k \in TextFields \cup NumberFields :
                    db'.sensor_current[k] = Filled(req[p].data, k)
            /\ (FIREBASE_ENABLED /\ remoteUp) =>
                    \A k \in TextFields \cup NumberFields :
                        sensor_data'[k] = Filled(req[p].data, k)]_vars

\* the empty report {} was pushed with Firebase enabled and answering: both
\* backends hold the defaults, temperature null
C25_Witness ==
    /\ FIREBASE_ENABLED /\ remoteUp /\ localUp
    /\ Len(hist) = 1
    /\ hist[1].op = "push" /\ hist[1].status = 200
    /\ db.sensor_current.pump_status = Str("OFF")
    /\ db.sensor_current.mode = Str("AUTO")
    /\ db.sensor_current.soil_status = Str("UNKNOWN")
    /\ db.sensor_current.temperature = None
    /\ sensor_data.pump_status = Str("OFF")
    /\ sensor_data.temperature = None

\* the fraction q has the value of the integer n
ValueIs(q, n) == q.den # 0 /\ q.num = n * q.den

\* the fraction q is the arithmetic mean of the non-empty seq
IsMean(q, seq) == q.den # 0 /\ q.num * Len(seq) = sum(seq) * q.den

\* C26: the history row a successful push appends has a soil_avg that is
\* not null: 0 for a report with no channel, else the arithmetic mean of
\* the report's channels (of 0, 0, 0, 0 when the report has no
\* soil_percent); for 40, 60, 80, 20 it is 50.
C26_SoilAverage ==
    [][\A p \in Procs :
        (PushReturns(p) /\ hist'[Len(hist')].status = 200) =>
            LET channels == IF "soil_percent" \in DOMAIN req[p].data
                            THEN req[p].data.soil_percent.list
                            ELSE <<0, 0, 0, 0>>
                row == db'.sensor_history IN
            /\ Truthy(row)
            /\ row.soil_avg # None
            /\ IF channels = <<>> THEN ValueIs(row.soil_avg, 0)
               ELSE IsMean(row.soil_avg, channels)
            /\ channels = <<40, 60, 80, 20>> => ValueIs(row.soil_avg, 50)]_vars

\* a report with no channel was pushed and then the report 40, 60, 80, 20:
\* the newest history row has the four channels and soil_avg 50
C26_Witness ==
    /\ Len(hist) = 2
    /\ \A i \in Calls : hist[i].op = "push" /\ hist[i].status = 200
    /\ db.sensor_history.soil1 = 40 /\ db.sensor_history.soil4 = 20
    /\ ValueIs(db.sensor_history.soil_avg, 50)
    /\ db.sensor_history.pump_status = Str("ON")

-----------------------------------------------------------------------------
(* Start-up *)

AllOps == TakeOps \cup IssueOps \cup {"get_data"}

\* C27: init_firebase returns for every combination of settings, and
\* returns True only when the four variables are set and the key has the
\* PEM header; while Firebase is not enabled and SQLite is healthy, every
\* push, get_data, set_mode, set_pump and get_command answers 200 with no
\* error, and no step touches the Firebase nodes.
C27_LocalOnlyMode ==
    /\ [](\A cfg \in Settings :
            /\ init_firebase(cfg) \in BOOLEAN
            /\ init_firebase(cfg) =>
                  /\ cfg.project_id /\ cfg.private_key
                  /\ cfg.client_email /\ cfg.database_url
                  /\ cfg.pem_header)
    /\ [][~FIREBASE_ENABLED =>
            /\ UNCHANGED remote
            /\ (localUp /\ Returned(AllOps)) =>
                  /\ hist'[Len(hist')].status = 200
                  /\ "error" \notin DOMAIN hist'[Len(hist')].body]_vars

\* without Firebase a command was issued, a push carried it, and a read
\* returned the pushed report from SQLite
C27_Witness ==
    /\ ~FIREBASE_ENABLED /\ localUp
    /\ Len(hist) = 3
    /\ \A i \in Calls : ~hist[i].firebase /\ hist[i].status = 200
    /\ hist[1].op \in IssueOps
    /\ hist[2].op = "push" /\ CarriesCommand(hist[2])
    /\ hist[3].op = "get_data" /\ hist[3].body.source = "sqlite"
    /\ hist[3].body.soil_status = Str("DRY")
    /\ commands = None /\ sensor_data = None

-----------------------------------------------------------------------------
(* The steps of a push *)

\* the UPDATE of sensor_current has run in the push p serves when this step
\* is over: in an earlier step, or in this one
UpdateRan(p) ==
    /\ req[p].op = "push"
    /\ IsDict(req[p].data)
    /\ \/ req[p].pc \in {"get_cmd", "mark_cmd", "commit"}
       \/ req[p].pc \in {"store", "local"} /\ localUp

\* C28: once the UPDATE of sensor_current has run in a push, the row holds
\* that push's report when the push returns, whatever later step failed
\* (history append, command take, commit): a read from SQLite returns this
\* report, and with Firebase enabled and answering both backends hold the
\* same report.
C28_StepsIsolated ==
    [][\A p \in Procs : (PushReturns(p) /\ UpdateRan(p)) =>
        /\ db'.sensor_current = SensorRow(req[p].data, req[p].timestamp)
        /\ (FIREBASE_ENABLED /\ remoteUp) =>
              Fields(FirebaseSnapshot(sensor_data', now))
                  = Fields(SqliteSnapshot(db'.sensor_current, FALSE))]_vars

-----------------------------------------------------------------------------
(* The row of sensor_current *)

\* this step is a start of the server (init_firebase and init_db run)
Starts == FIREBASE_ENABLED' # FIREBASE_ENABLED

\* no push has answered success so far
NothingPushed == \A i \in Calls : ~(hist[i].op = "push" /\ hist[i].status = 200)

\* C29: sensor_current always holds its one row (id 1), committed and inside
\* every transaction; until the first successful push the row has
\* esp32_online 0 and every other column null; a start of the server over
\* the existing file leaves the row as it is; every push that answers
\* success leaves its report in the row; no step removes the row.
C29_SingletonRow ==
    /\ [](/\ Truthy(db.sensor_current)
          /\ Truthy(txn.sensor_current)
          /\ NothingPushed =>
                /\ db.sensor_current.esp32_online = 0
                /\ \A k \in DOMAIN db.sensor_current \ {"esp32_online"} :
                        db.sensor_current[k] = None)
    /\ [][/\ Starts => db'.sensor_current = db.sensor_current
          /\ \A p \in Procs :
                (PushReturns(p) /\ hist'[Len(hist')].status = 200) =>
                    db'.sensor_current = SensorRow(req[p].data, req[p].timestamp)]_vars

\* a report was pushed, then the server was started again with other
\* settings: the row still holds the report
C29_Witness ==
    /\ Len(hist) = 1
    /\ hist[1].op = "push" /\ hist[1].status = 200
    /\ hist[1].firebase # FIREBASE_ENABLED
    /\ db.sensor_current.esp32_online = 1
    /\ db.sensor_current.soil_status = Str("DRY")
    /\ AllIdle

-----------------------------------------------------------------------------
(* Delivery and acknowledgement *)

\* C30: with Firebase enabled, a push whose response carries a command has
\* marked that command executed in the slot: when the update raised, the
\* response carries no command. So no command of the slot is carried by
\* two responses.
C30_DeliveryImpliesAck ==
    /\ [][\A p \in Procs :
            (/\ PushReturns(p) /\ FIREBASE_ENABLED
             /\ CarriesCommand(hist'[Len(hist')])) =>
                /\ Get(commands', "cid", 0) = req[p].carried
                /\ Get(commands', "executed", FALSE)]_vars
    /\ [](FIREBASE_ENABLED => \A c \in Stamps : delivered[c] < 2)

-----------------------------------------------------------------------------
(* The stored online flag *)

\* C31: however reads served from SQLite and pushes interleave, the read's
\* UPDATE of esp32_online to 0 never lands on a report committed after the
\* read looked at the row: whenever the committed row has esp32_online 0
\* and a last_update, that last_update is at least ESP32_TIMEOUT_SECONDS
\* old.
C31_NoStaleOfflineWrite ==
    LET row == db.sensor_current IN
    (row.esp32_online = 0 /\ Truthy(row.last_update)) =>
        now - fromisoformat(row.last_update) >= ESP32_TIMEOUT_SECONDS

-----------------------------------------------------------------------------
(* Progress of the local queue *)

\* the command with stamp c waits in pump_commands
Queued(c) ==
    \E i \in DOMAIN db.pump_commands :
        db.pump_commands[i].cid = c /\ db.pump_commands[i].executed = 0

\* C32: without Firebase, while the device keeps taking (through push or
\* through get_command), every command appended to pump_commands is
\* eventually returned by a take, also when new commands keep being issued.
C32_NoStarvation ==
    \A c \in 1..(MaxQueue + 1) : Queued(c) ~> ~Queued(c)

-----------------------------------------------------------------------------
(* A set_mode / set_pump call that fails *)

\* C33: a set_mode / set_pump call that answers success: false (its
\* commands_ref.set, INSERT or commit raised) leaves the Firebase slot and
\* pump_commands exactly as they were before the call.
C33_FailedIssueChangesNothing ==
    [][(Returned(IssueOps) /\ hist'[Len(hist')].status # 200) =>
        /\ ~hist'[Len(hist')].body.success
        /\ commands' = commands
        /\ db'.pump_commands = db.pump_commands
        /\ txn'.pump_commands = txn.pump_commands]_vars

\* a command was issued, a second call failed, and the take that followed
\* returned the first command
C33_Witness ==
    /\ Len(hist) = 3
    /\ IssueDone(1)
    /\ hist[2].op \in IssueOps /\ hist[2].status = 500
    /\ hist[2].firebase = hist[1].firebase
    /\ hist[2].arg # hist[1].arg
    /\ hist[3].op \in TakeOps /\ hist[3].status = 200
    /\ BodyCommand(hist[3]) = IssuedCommand(1)

-----------------------------------------------------------------------------
(* Where delivered commands come from *)

\* C34: every command a push or a get_command returns has the kind and the
\* upper-cased value of an earlier set_mode / set_pump call that answered
\* success; before the first such call every take returns no command.
C34_OnlyIssuedDelivered ==
    \A i \in Calls :
        (hist[i].op \in TakeOps /\ CarriesCommand(hist[i])) =>
            \E j \in 1..(i - 1) :
                /\ IssueDone(j)
                /\ BodyCommand(hist[i]).type = KindOf(hist[j].op)
                /\ BodyCommand(hist[i]).value =
                        (CASE hist[j].arg = "manual" -> "MANUAL"
                           [] hist[j].arg = "AUTO" -> "AUTO"
                           [] hist[j].arg = "on" -> "ON")

\* a take before any command was issued returned none; then set_pump('on')
\* was called and the next take returned pump ON
C34_Witness ==
    /\ Len(hist) = 3
    /\ hist[1].op \in TakeOps /\ hist[1].status = 200 /\ ~CarriesCommand(hist[1])
    /\ hist[2].op = "set_pump" /\ hist[2].arg = "on" /\ hist[2].status = 200
    /\ hist[3].op \in TakeOps
    /\ BodyCommand(hist[3]) = [type |-> "pump", value |-> "ON"]

-----------------------------------------------------------------------------
(* What get_data writes *)

\* process p takes a step of get_data
ReadStep(p) ==
    /\ req'[p] # req[p]
    /\ req[p].op = "get_data" \/ req'[p].op = "get_data"

\* the "source" of the body a get_data request has built, "none" before
SourceOf(r) ==
    IF "source" \in DOMAIN r.response_data THEN r.response_data.source ELSE "none"

\* C35: no step of get_data changes the Firebase document or slot, the
\* pump_commands table or any column of the sensor_current row other than
\* esp32_online; esp32_online changes only from 1 to 0 and only in a read
\* whose body has source "sqlite"; a read whose body has source "firebase"
\* changes nothing in SQLite.
C35_ReadsAlmostPure ==
    [][\A p \in Procs : ReadStep(p) =>
        /\ remote' = remote
        /\ db' = [db EXCEPT !.sensor_current.esp32_online =
                                db'.sensor_current.esp32_online]
        /\ txn'.pump_commands = txn.pump_commands
        /\ db'.sensor_current.esp32_online # db.sensor_current.esp32_online =>
                /\ db.sensor_current.esp32_online = 1
                /\ db'.sensor_current.esp32_online = 0
                /\ SourceOf(req[p]) = "sqlite"
        /\ "firebase" \in {SourceOf(req[p]), SourceOf(req'[p])} =>
                sqlite' = sqlite]_vars

\* a command is queued, the device has pushed, the timeout has passed and a
\* read served from SQLite has marked the device offline
C35_Witness ==
    /\ Len(hist) = 3
    /\ hist[3].op = "get_data" /\ hist[3].status = 200
    /\ hist[3].body.source = "sqlite" /\ ~hist[3].body.esp32_online
    /\ db.sensor_current.esp32_online = 0
    /\ Truthy(db.sensor_current.last_update)
    /\ Len(db.pump_commands) > 0

-----------------------------------------------------------------------------
(* get_data over an empty Firebase document *)

\* C36: with Firebase enabled and reachable, no document under sensor_data
\* and SQLite readable, get_data answers 200 with the sensor_current row and
\* source "sqlite".
C36_EmptyRemoteFallsBack ==
    [][(/\ Returned({"get_data"})
        /\ FIREBASE_ENABLED /\ remoteUp /\ ~Truthy(sensor_data)
        /\ localUp) =>
        LET call == hist'[Len(hist')] IN
        /\ call.status = 200
        /\ "source" \in DOMAIN call.body
        /\ call.body.source = "sqlite"
        /\ [call.body EXCEPT !.esp32_online = FALSE] =
                SqliteSnapshot(db.sensor_current, FALSE)]_vars

\* the device pushed while Firebase was disabled, the server was restarted
\* with Firebase enabled, and a read over the empty document returned the
\* pushed row from SQLite
C36_Witness ==
    /\ FIREBASE_ENABLED /\ remoteUp /\ ~Truthy(sensor_data)
    /\ Len(hist) = 2
    /\ hist[1].op = "push" /\ hist[1].status = 200 /\ ~hist[1].firebase
    /\ hist[2].op = "get_data" /\ hist[2].status = 200 /\ hist[2].firebase
    /\ hist[2].body.source = "sqlite"
    /\ Truthy(hist[2].body.last_update)

-----------------------------------------------------------------------------
(* A slot written by another client of the Firebase database *)

\* a command as another client writes it: no executed field, and a value
\* set_pump is never called with here, which tells it from issued commands
ForeignSlot == [type |-> "pump", value |-> "OFF"]

\* between two requests the other client puts its command in the slot
ForeignCommand ==
    /\ AllIdle
    /\ remoteUp
    /\ commands # ForeignSlot
    /\ commands' = ForeignSlot
    /\ UNCHANGED <<sensor_data, sqlite, env, req, nissued, delivered, hist>>

NextSlot ==
    \/ \E p \in Procs : Handler(p)
    \/ ForeignCommand

\* the four endpoints served one at a time and logged, each store up or
\* down for the whole behaviour, the slot also written by another client
SpecSlot == InitSerial /\ [][NextSlot]_vars

\* process p takes a step of esp32_push_data or esp32_get_command
TakeStepOf(p) ==
    /\ req'[p] # req[p]
    /\ req[p].op \in TakeOps \/ req'[p].op \in TakeOps

\* C37: while the slot holds a command without an executed field, no step
\* of a push or a get_command changes the slot or goes on to mark it, and
\* the response of a push or get_command does not carry that command.
C37_AbsentExecutedIsExecuted ==
    [][\A p \in Procs :
        (/\ TakeStepOf(p)
         /\ Truthy(commands)
         /\ "executed" \notin DOMAIN commands) =>
            /\ commands' = commands
            /\ req'[p].pc # "mark_cmd"
            /\ Returned(TakeOps) =>
                   LET call == hist'[Len(hist')] IN
                   CarriesCommand(call) => BodyCommand(call) # CommandOf(commands)]_vars

\* set_pump wrote the slot, the other client overwrote it, and a take with
\* Firebase enabled and reachable returned no command and left the slot alone
C37_Witness ==
    /\ Len(hist) = 2
    /\ FIREBASE_ENABLED /\ remoteUp
    /\ hist[1].op = "set_pump" /\ hist[1].status = 200
    /\ hist[2].op \in TakeOps /\ hist[2].status = 200 /\ ~CarriesCommand(hist[2])
    /\ commands = ForeignSlot

====
